---- MODULE Spec2Model ----
\* The XML-RPC TestCase API of tcms/xmlrpc/api/testcase.py as a state machine
\* over the persisted records it reads and writes: test cases, their text
\* revisions, tag records, tag and component attachments, notification lists.
\* Every RPC method is one action; a call that raises leaves its exception in
\* last.result, together with whatever the method wrote before it raised.
EXTENDS Integers, Sequences, FiniteSets, TLC

\* ------------------------------------------------------------------ bounds
\* Test cases the model creates (primary keys 1..MaxCases).
MaxCases == 2
\* TestCaseText rows the model writes, over all cases.
MaxTexts == 3

\* ------------------------------------------------------------- the database
VARIABLES
    test_cases,       \* TestCase rows: [author, summary, category, estimated_time]
    case_texts,       \* TestCaseText rows of each case, oldest first
    tags,             \* Tag rows: tags[pk] = name
    case_tags,        \* case_tags[pk] = primary keys of the tags attached
    case_components,  \* case_components[pk] = primary keys of the components attached
    case_cc,          \* case_cc[pk] = the notification list of the case
    last              \* the call just made: its arguments and how it ended

db == <<test_cases, case_texts, tags, case_tags, case_components, case_cc>>
vars == <<test_cases, case_texts, tags, case_tags, case_components, case_cc, last>>

\* ------------------------------------------------------------ fixture data
\* Component rows (no method of this module creates or deletes one) and the
\* primary keys a caller may pass: 3 names no component.
Components == {1, 2}
ComponentIds == {1, 2, 3}
\* Categories and the product each belongs to; product 3 does not exist.
Products == {1, 2}
CategoryProduct == [c \in {1, 2} |-> c]
Users == {"alice", "bob"}
TagNames == {"t1", "t2"}
\* Addresses EmailField accepts, and strings it rejects.
ValidEmails == {"a@x.org", "b@x.org"}
InvalidEmails == {"not-an-email", "also bad"}

\* Primary keys a caller may pass for a case: the keys the model can create.
CaseIds == 1..MaxCases

\* --------------------------------------------------------- Python helpers
Range(s) == {s[i] : i \in DOMAIN s}

\* str.strip() on a string held as a tuple of characters.
RECURSIVE LStrip(_)
LStrip(s) == IF s # <<>> /\ Head(s) = " " THEN LStrip(Tail(s)) ELSE s
RECURSIVE RStrip(_)
RStrip(s) ==
    IF s # <<>> /\ s[Len(s)] = " " THEN RStrip(SubSeq(s, 1, Len(s) - 1)) ELSE s
strip(s) == RStrip(LStrip(s))

\* The subsequence of s whose elements satisfy Keep, in order.
RECURSIVE SelectInOrder(_, _)
SelectInOrder(s, keep) ==
    IF s = <<>> THEN <<>>
    ELSE IF Head(s) \in keep THEN <<Head(s)>> \o SelectInOrder(Tail(s), keep)
    ELSE SelectInOrder(Tail(s), keep)

\* Every ordering of the finite set S as a tuple: what list(set(...)) may return.
Orderings(S) ==
    {f \in [1..Cardinality(S) -> S] : \A i, j \in DOMAIN f : i # j => f[i] # f[j]}

\* ------------------------------------------------------- the values mapping
\* A values dict: the keys present, and the value under each key. A key that is
\* absent holds the value dict.get returns for it as far as truth goes: 0, "",
\* the empty tuple. A duration is "" (None) or a number of seconds, "60s".
NarrativeKeys == {"setup", "action", "effect", "breakdown"}
NoValues ==
    [keys |-> {}, summary |-> "", category |-> 0, product |-> 0,
     action |-> <<>>, effect |-> <<>>, setup |-> <<>>, breakdown |-> <<>>,
     tag |-> <<>>, component |-> 0, estimated_time |-> ""]
With(v, k, x) == [v EXCEPT ![k] = x, !.keys = @ \cup {k}]

\* ---------------------------------------------------------- the last call
\* before: what was attached to the case when an attach or detach call began.
\* undoes: this detach call follows the successful attach of the same thing to
\* the same case; origin is then what was attached when that attach began.
NoCall ==
    [op |-> "none", result |-> "ok", case_id |-> 0, component_id |-> 0,
     tag |-> "", cc_list |-> [is_list |-> TRUE, items |-> <<>>],
     values |-> NoValues, user |-> "", invalid |-> <<>>, returned |-> <<>>,
     before |-> {}, undoes |-> FALSE, origin |-> {}]
Call(op) == [NoCall EXCEPT !.op = op]

Init ==
    /\ test_cases = <<>>
    /\ case_texts = <<>>
    /\ tags = <<>>
    /\ case_tags = <<>>
    /\ case_components = <<>>
    /\ case_cc = <<>>
    /\ last = NoCall

Exists(case_id) == case_id \in DOMAIN test_cases

\* The number of TestCaseText rows in texts.
RECURSIVE Rows(_)
Rows(texts) == IF texts = <<>> THEN 0 ELSE Len(Head(texts)) + Rows(Tail(texts))

\* django.utils.dateparse.parse_duration: the duration a string spells, None
\* for a string that spells none.
parse_duration(s) == IF s = "0:01:00" THEN "60s" ELSE ""

\* values after the first lines of create, update and filter: a duration given
\* is parsed in place.
parsed(values) ==
    IF values.estimated_time # ""
    THEN [values EXCEPT !.estimated_time = parse_duration(@)]
    ELSE values

\* ------------------------------------------------- the model layer and forms
\* tcms.testcases.models, tcms.management.models and tcms.xmlrpc.forms: the rows
\* each model method writes, and what each form accepts.

\* A get_or_create that always creates (Tag.objects.create).
get_or_create_always(tag_rows, name) == Append(tag_rows, name)

\* Tag.objects.get_or_create(name=name): the Tag rows afterwards.
get_or_create(tag_rows, name) ==
    IF name \in Range(tag_rows) THEN tag_rows ELSE Append(tag_rows, name)
\* Tag.objects.get(name=name): the primary key of the row found.
TagPk(tag_rows, name) == CHOOSE pk \in DOMAIN tag_rows : tag_rows[pk] = name

\* NewCaseForm(values).populate(product).is_valid(): the category is required
\* and is one of the product's categories; the summary is not required.
NewCaseFormValid(values) ==
    /\ values.product \in Products
    /\ values.category \in DOMAIN CategoryProduct
    /\ CategoryProduct[values.category] = values.product

\* UpdateCaseForm(values).is_valid(): a product given exists, and a category
\* given is one of its categories.
UpdateCaseFormValid(values) ==
    /\ values.product # 0 => values.product \in Products
    /\ values.category # 0 =>
        /\ values.category \in DOMAIN CategoryProduct
        /\ CategoryProduct[values.category] = values.product

\* form.cleaned_data: every field of the form and nothing else, a field not
\* supplied holding its empty value.
FormFields ==
    {"summary", "category", "product", "action", "effect", "setup", "breakdown",
     "tag", "component", "estimated_time"}
cleaned_data(values) == [f \in FormFields |-> values[f]]

\* TestCase.add_text(author, action, effect, setup, breakdown): one more row.
add_text(texts, author, action, effect, setup, breakdown) ==
    Append(texts, [author |-> author, action |-> action, effect |-> effect,
                   setup |-> setup, breakdown |-> breakdown])

\* emailing.add_cc(addresses) and emailing.remove_cc(addresses).
add_cc(existing, addresses) == existing \o addresses
remove_cc(existing, addresses) ==
    SelectInOrder(existing, Range(existing) \ Range(addresses))

\* ------------------------------------------------------------ components
add_component(case_id, component_id) ==
    LET call == [Call("add_component") EXCEPT
                    !.case_id = case_id, !.component_id = component_id]
    IN  IF ~Exists(case_id) \/ component_id \notin Components
        THEN /\ last' = [call EXCEPT !.result = "DoesNotExist"]
             /\ UNCHANGED db
        ELSE /\ case_components' =
                    [case_components EXCEPT ![case_id] = @ \cup {component_id}]
             /\ last' = [call EXCEPT !.before = case_components[case_id]]
             /\ UNCHANGED <<test_cases, case_texts, tags, case_tags, case_cc>>

\* The primary keys in S, ascending.
RECURSIVE Ascending(_)
Ascending(S) ==
    IF S = {} THEN <<>>
    ELSE LET least == CHOOSE x \in S : \A y \in S : x <= y
         IN  <<least>> \o Ascending(S \ {least})

get_components(case_id) ==
    LET call == [Call("get_components") EXCEPT !.case_id = case_id]
    IN  /\ last' = IF ~Exists(case_id)
                   THEN [call EXCEPT !.result = "DoesNotExist"]
                   ELSE [call EXCEPT
                            !.returned = Ascending(case_components[case_id])]
        /\ UNCHANGED db

\* A remove_component that detaches every component of the case.
remove_component_clear(case_id, component_id) ==
    LET call == [Call("remove_component") EXCEPT
                    !.case_id = case_id, !.component_id = component_id]
        undoes == /\ last.op = "add_component" /\ last.result = "ok"
                  /\ last.case_id = case_id /\ last.component_id = component_id
    IN  IF ~Exists(case_id) \/ component_id \notin Components
        THEN /\ last' = [call EXCEPT !.result = "DoesNotExist"]
             /\ UNCHANGED db
        ELSE /\ case_components' = [case_components EXCEPT ![case_id] = {}]
             /\ last' = [call EXCEPT
                            !.before = case_components[case_id],
                            !.undoes = undoes,
                            !.origin = IF undoes THEN last.before ELSE {}]
             /\ UNCHANGED <<test_cases, case_texts, tags, case_tags, case_cc>>

remove_component(case_id, component_id) ==
    LET call == [Call("remove_component") EXCEPT
                    !.case_id = case_id, !.component_id = component_id]
        undoes == /\ last.op = "add_component" /\ last.result = "ok"
                  /\ last.case_id = case_id /\ last.component_id = component_id
    IN  IF ~Exists(case_id) \/ component_id \notin Components
        THEN /\ last' = [call EXCEPT !.result = "DoesNotExist"]
             /\ UNCHANGED db
        ELSE /\ case_components' =
                    [case_components EXCEPT ![case_id] = @ \ {component_id}]
             /\ last' = [call EXCEPT
                            !.before = case_components[case_id],
                            !.undoes = undoes,
                            !.origin = IF undoes THEN last.before ELSE {}]
             /\ UNCHANGED <<test_cases, case_texts, tags, case_tags, case_cc>>

\* ------------------------------------------------------------------ tags
\* add_tag gets or creates the tag row first and looks the case up second: the
\* row it created stays when the lookup raises.
add_tag(case_id, tag) ==
    LET call == [Call("add_tag") EXCEPT !.case_id = case_id, !.tag = tag]
        rows == get_or_create(tags, tag)
    IN  /\ tags' = rows
        /\ IF ~Exists(case_id)
           THEN /\ last' = [call EXCEPT !.result = "DoesNotExist"]
                /\ UNCHANGED <<test_cases, case_texts, case_tags,
                               case_components, case_cc>>
           ELSE /\ case_tags' =
                        [case_tags EXCEPT ![case_id] = @ \cup {TagPk(rows, tag)}]
                /\ last' = [call EXCEPT !.before = case_tags[case_id]]
                /\ UNCHANGED <<test_cases, case_texts, case_components, case_cc>>

remove_tag(case_id, tag) ==
    LET call == [Call("remove_tag") EXCEPT !.case_id = case_id, !.tag = tag]
        undoes == /\ last.op = "add_tag" /\ last.result = "ok"
                  /\ last.case_id = case_id /\ last.tag = tag
    IN  IF ~Exists(case_id) \/ tag \notin Range(tags)
        THEN /\ last' = [call EXCEPT !.result = "DoesNotExist"]
             /\ UNCHANGED db
        ELSE /\ case_tags' =
                    [case_tags EXCEPT ![case_id] = @ \ {TagPk(tags, tag)}]
             /\ last' = [call EXCEPT
                            !.before = case_tags[case_id],
                            !.undoes = undoes,
                            !.origin = IF undoes THEN last.before ELSE {}]
             /\ UNCHANGED <<test_cases, case_texts, tags, case_components, case_cc>>

\* ------------------------------------------------------ notification lists
\* A validation that reports the first entry rejected and stops.
invalid_emails_first(items) ==
    IF Range(items) \subseteq ValidEmails THEN <<>>
    ELSE <<items[CHOOSE i \in DOMAIN items :
                /\ items[i] \notin ValidEmails
                /\ \A j \in 1..(i - 1) : items[j] \in ValidEmails]>>

\* The entries of cc_list that EmailField.clean rejects, in input order.
invalid_emails(items) == SelectInOrder(items, Range(items) \ ValidEmails)

\* How _validate_cc_list(cc_list) ends.
_validate_cc_list(cc_list) ==
    IF ~cc_list.is_list THEN "TypeError"
    ELSE IF invalid_emails(cc_list.items) # <<>> THEN "ValidationError"
    ELSE "ok"

\* An add_notification_cc that hands cc_list itself to emailing.add_cc.
adding_cc_all(items, existing_cc) == {items}

\* The addresses add_notification_cc hands to emailing.add_cc: those of cc_list
\* not yet on the list, once each, in any order.
adding_cc(items, existing_cc) == Orderings(Range(items) \ Range(existing_cc))

add_notification_cc(case_id, cc_list) ==
    LET call == [Call("add_notification_cc") EXCEPT
                    !.case_id = case_id, !.cc_list = cc_list]
        checked == _validate_cc_list(cc_list)
    IN  IF checked = "TypeError"
        THEN /\ last' = [call EXCEPT !.result = "TypeError"]
             /\ UNCHANGED db
        ELSE IF checked = "ValidationError"
        THEN /\ last' = [call EXCEPT !.result = "ValidationError",
                                     !.invalid = invalid_emails(cc_list.items)]
             /\ UNCHANGED db
        ELSE IF ~Exists(case_id)
        THEN /\ last' = [call EXCEPT !.result = "DoesNotExist"]
             /\ UNCHANGED db
        ELSE /\ \E adding \in adding_cc(cc_list.items, case_cc[case_id]) :
                    case_cc' = [case_cc EXCEPT ![case_id] = add_cc(@, adding)]
             /\ last' = call
             /\ UNCHANGED <<test_cases, case_texts, tags, case_tags,
                            case_components>>

remove_notification_cc(case_id, cc_list) ==
    LET call == [Call("remove_notification_cc") EXCEPT
                    !.case_id = case_id, !.cc_list = cc_list]
        checked == _validate_cc_list(cc_list)
    IN  IF checked = "TypeError"
        THEN /\ last' = [call EXCEPT !.result = "TypeError"]
             /\ UNCHANGED db
        ELSE IF checked = "ValidationError"
        THEN /\ last' = [call EXCEPT !.result = "ValidationError",
                                     !.invalid = invalid_emails(cc_list.items)]
             /\ UNCHANGED db
        ELSE IF ~Exists(case_id)
        THEN /\ last' = [call EXCEPT !.result = "DoesNotExist"]
             /\ UNCHANGED db
        ELSE /\ case_cc' = [case_cc EXCEPT ![case_id] = remove_cc(@, cc_list.items)]
             /\ last' = call
             /\ UNCHANGED <<test_cases, case_texts, tags, case_tags,
                            case_components>>

get_notification_cc(case_id) ==
    LET call == [Call("get_notification_cc") EXCEPT !.case_id = case_id]
    IN  /\ last' = IF ~Exists(case_id)
                   THEN [call EXCEPT !.result = "DoesNotExist"]
                   ELSE [call EXCEPT !.returned = case_cc[case_id]]
        /\ UNCHANGED db

\* ---------------------------------------------------------------- create
\* The tags create attaches: string_to_list(values.get('tag', [])) one by one.
RECURSIVE TagRowsAfter(_, _)
TagRowsAfter(tag_rows, names) ==
    IF names = <<>> THEN tag_rows
    ELSE TagRowsAfter(get_or_create(tag_rows, Head(names)), Tail(names))

\* test_case.serialize(), and the same with latest_text() under the key text.
serialize(rows, pk) ==
    [case_id |-> pk, summary |-> rows[pk].summary, category |-> rows[pk].category,
     estimated_time |-> rows[pk].estimated_time]
Serialized(rows, texts, pk) ==
    [case_id |-> pk, summary |-> rows[pk].summary, category |-> rows[pk].category,
     estimated_time |-> rows[pk].estimated_time,
     text |-> texts[pk][Len(texts[pk])]]

\* A first check that wants both the category and the summary.
missing_required_both(values) == ~(values.category # 0 /\ values.summary # "")

\* create's first check: neither a category nor a summary.
missing_required(values) == ~(values.category # 0 \/ values.summary # "")

create(values, user) ==
    LET call == [Call("create") EXCEPT !.values = values, !.user = user]
        cleaned == cleaned_data(parsed(values))
        pk == Len(test_cases) + 1
        rows == TagRowsAfter(tags, values.tag)
        new_cases == Append(test_cases,
                        [author |-> user, summary |-> cleaned.summary,
                         category |-> cleaned.category,
                         estimated_time |-> cleaned.estimated_time])
        new_texts == Append(case_texts,
                        add_text(<<>>, user, cleaned.action, cleaned.effect,
                                 cleaned.setup, cleaned.breakdown))
    IN  IF missing_required(values)
        THEN /\ last' = [call EXCEPT !.result = "ValueError"]
             /\ UNCHANGED db
        ELSE IF ~NewCaseFormValid(values)
        THEN /\ last' = [call EXCEPT !.result = "ValueError"]
             /\ UNCHANGED db
        ELSE /\ Len(test_cases) < MaxCases
             /\ Rows(case_texts) < MaxTexts
             /\ test_cases' = new_cases
             /\ case_texts' = new_texts
             /\ tags' = rows
             /\ case_tags' =
                    Append(case_tags, {TagPk(rows, n) : n \in Range(values.tag)})
             /\ case_components' = Append(case_components, {})
             /\ case_cc' = Append(case_cc, <<>>)
             /\ last' = [call EXCEPT
                            !.case_id = pk,
                            !.returned = <<Serialized(new_cases, new_texts, pk)>>]

\* ---------------------------------------------------------------- filter
\* The cases a query of equality lookups selects, serialized in key order.
RECURSIVE Matching(_, _)
Matching(query, upto) ==
    IF upto = 0 THEN <<>>
    ELSE LET rest == Matching(query, upto - 1)
             hit == \A k \in query.keys : test_cases[upto][k] = parsed(query)[k]
         IN  IF hit THEN Append(rest, Serialized(test_cases, case_texts, upto))
             ELSE rest

filter(query) ==
    /\ last' = [Call("filter") EXCEPT
                    !.values = query,
                    !.returned = Matching(query, Len(test_cases))]
    /\ UNCHANGED db

\* ---------------------------------------------------------------- update
\* A loop over the fields of the form instead of the keys of values.
setattrs_all(test_case, values, cleaned) ==
    [a \in DOMAIN test_case |->
        IF a \in DOMAIN cleaned /\ a \notin {"component", "tag"}
        THEN cleaned[a] ELSE test_case[a]]

\* The row after the loop over values.keys(): each key that names an attribute
\* and is not a many-to-many relation takes its cleaned value.
setattrs(test_case, values, cleaned) ==
    [a \in DOMAIN test_case |->
        IF a \in values.keys /\ a \notin {"component", "tag"}
        THEN cleaned[a] ELSE test_case[a]]

\* An update that rewrites the latest text row instead of adding one.
updated_text_inplace(texts, values, cleaned, author) ==
    IF values.keys \cap NarrativeKeys # {}
    THEN [texts EXCEPT ![Len(texts)] =
            [author |-> author, action |-> strip(cleaned.action),
             effect |-> strip(cleaned.effect), setup |-> strip(cleaned.setup),
             breakdown |-> strip(cleaned.breakdown)]]
    ELSE texts

\* An update that keeps the latest text of each narrative field not supplied.
updated_text_carry(texts, values, cleaned, author) ==
    LET latest == texts[Len(texts)]
        field(k) == IF k \in values.keys THEN strip(cleaned[k]) ELSE latest[k]
    IN  IF values.keys \cap NarrativeKeys # {}
        THEN add_text(texts, author, field("action"), field("effect"),
                      field("setup"), field("breakdown"))
        ELSE texts

\* The text rows of the case after update: one more when values names a
\* narrative field, each field the stripped cleaned value.
updated_text(texts, values, cleaned, author) ==
    IF values.keys \cap NarrativeKeys # {}
    THEN add_text(texts, author, strip(cleaned.action), strip(cleaned.effect),
                  strip(cleaned.setup), strip(cleaned.breakdown))
    ELSE texts

\* An update that looks the case up before it checks values.
update_result_lookup_first(case_id, values) ==
    IF ~Exists(case_id) THEN "DoesNotExist"
    ELSE IF values.category # 0 /\ ~(values.product # 0) THEN "ValueError"
    ELSE IF ~UpdateCaseFormValid(values) THEN "ValueError"
    ELSE "ok"

\* How update ends: the product check, then the form, then the lookup.
update_result(case_id, values) ==
    IF values.category # 0 /\ ~(values.product # 0) THEN "ValueError"
    ELSE IF ~UpdateCaseFormValid(values) THEN "ValueError"
    ELSE IF ~Exists(case_id) THEN "DoesNotExist"
    ELSE "ok"

update(case_id, values, user) ==
    LET call == [Call("update") EXCEPT
                    !.case_id = case_id, !.values = values, !.user = user]
        cleaned == cleaned_data(parsed(values))
        result == update_result(case_id, values)
    IN  IF result # "ok"
        THEN /\ last' = [call EXCEPT !.result = result]
             /\ UNCHANGED db
        ELSE LET new_cases == [test_cases EXCEPT
                                  ![case_id] = setattrs(@, values, cleaned)]
                 new_texts == [case_texts EXCEPT
                                  ![case_id] = updated_text(@, values, cleaned, user)]
             IN  /\ Rows(new_texts) <= MaxTexts
                 /\ test_cases' = new_cases
                 /\ case_texts' = new_texts
                 /\ last' = [call EXCEPT
                                !.returned = <<serialize(new_cases, case_id)>>]
                 /\ UNCHANGED <<tags, case_tags, case_components, case_cc>>

\* ------------------------------------------------------------- the callers
\* The values mappings, queries and address lists the callers send.
CreateInputs ==
    << With(With(With(With(NoValues, "category", 1), "product", 1),
                 "summary", "s1"), "estimated_time", "0:01:00"),
       With(With(NoValues, "category", 1), "product", 1),
       With(NoValues, "summary", "s1"),
       NoValues,
       With(With(NoValues, "category", 2), "product", 1),
       With(With(With(With(NoValues, "category", 2), "product", 2),
                 "tag", <<"t1", "t2", "t1">>), "action", <<" ", "r">>) >>

UpdateInputs ==
    << With(NoValues, "summary", "s2"),
       With(NoValues, "action", <<" ", "r", " ">>),
       With(With(NoValues, "effect", <<"e">>), "setup", <<>>),
       With(NoValues, "category", 2),
       With(With(NoValues, "category", 2), "product", 2),
       With(With(NoValues, "category", 2), "product", 1),
       With(With(NoValues, "tag", <<"t2">>), "component", 2),
       With(With(NoValues, "summary", "s2"), "breakdown", <<"b", " ">>),
       NoValues,
       With(NoValues, "estimated_time", "0:01:00"),
       With(NoValues, "estimated_time", "soon") >>

FilterInputs ==
    << NoValues, With(NoValues, "summary", "s1"), With(NoValues, "category", 2),
       With(NoValues, "estimated_time", "0:01:00") >>

List(items) == [is_list |-> TRUE, items |-> items]
CcInputs ==
    << List(<<>>),
       List(<<"a@x.org">>),
       List(<<"b@x.org", "a@x.org">>),
       List(<<"b@x.org", "b@x.org">>),
       List(<<"not-an-email">>),
       List(<<"also bad", "a@x.org", "not-an-email">>),
       [is_list |-> FALSE, items |-> <<>>] >>

\* Every method, each with a few of the inputs: the sessions below send the
\* rest to the methods they are about.
Next ==
    \/ \E i \in {2, 3} : create(CreateInputs[i], "alice")
    \/ \E c \in CaseIds, i \in {2, 6, 7} : update(c, UpdateInputs[i], "bob")
    \/ filter(FilterInputs[1])
    \/ \E c \in CaseIds, k \in {1, 3} : add_component(c, k)
    \/ \E c \in CaseIds, k \in {1, 3} : remove_component(c, k)
    \/ \E c \in CaseIds : add_tag(c, "t1")
    \/ \E c \in CaseIds : remove_tag(c, "t1")
    \/ \E c \in CaseIds, i \in {2, 5} : add_notification_cc(c, CcInputs[i])
    \/ \E c \in CaseIds, i \in {2, 5} : remove_notification_cc(c, CcInputs[i])
    \/ \E c \in CaseIds : get_components(c)
    \/ \E c \in CaseIds : get_notification_cc(c)

Spec == Init /\ [][Next]_vars

\* A session that attaches and detaches components and tags.
NextAttach ==
    \/ create(CreateInputs[2], "alice")
    \/ \E c \in CaseIds, k \in ComponentIds : add_component(c, k)
    \/ \E c \in CaseIds, k \in ComponentIds : remove_component(c, k)
    \/ \E c \in CaseIds, t \in TagNames : add_tag(c, t)
    \/ \E c \in CaseIds, t \in TagNames : remove_tag(c, t)

SpecAttach == Init /\ [][NextAttach]_vars

\* A session that tags cases, when creating them and afterwards.
NextTag ==
    \/ \E i \in {2, 4, 6} : create(CreateInputs[i], "alice")
    \/ \E c \in CaseIds, t \in TagNames : add_tag(c, t)
    \/ \E c \in CaseIds, t \in TagNames : remove_tag(c, t)

SpecTag == Init /\ [][NextTag]_vars

\* A session that edits notification lists.
NextCc ==
    \/ create(CreateInputs[2], "alice")
    \/ \E c \in CaseIds, i \in DOMAIN CcInputs : add_notification_cc(c, CcInputs[i])
    \/ \E c \in CaseIds, i \in DOMAIN CcInputs : remove_notification_cc(c, CcInputs[i])

SpecCc == Init /\ [][NextCc]_vars

\* A session that updates the attributes of cases that carry tags, components
\* and notification addresses.
NextEdit ==
    \/ create(CreateInputs[6], "alice")
    \/ \E c \in CaseIds : add_component(c, 1)
    \/ \E c \in CaseIds : add_notification_cc(c, CcInputs[2])
    \/ \E c \in CaseIds, i \in {1, 5, 7, 9, 10, 11} :
            update(c, UpdateInputs[i], "bob")

SpecEdit == Init /\ [][NextEdit]_vars

\* A session that creates cases, rewrites their narrative and searches them.
NextCase ==
    \/ \E i \in DOMAIN CreateInputs : create(CreateInputs[i], "alice")
    \/ \E c \in CaseIds, i \in {2, 3, 4, 6, 8}, u \in Users :
            update(c, UpdateInputs[i], u)
    \/ \E i \in DOMAIN FilterInputs : filter(FilterInputs[i])

SpecCase == Init /\ [][NextCase]_vars

\* ================================================================ properties
Ok(op) == last.op = op /\ last.result = "ok"

\* C1: a call that ends in an error leaves every persisted record as it was
\* before the call; in particular add_tag on a case id that does not exist
\* leaves the tag records unchanged.
C1_FailedCallChangesNothing ==
    [][last'.result # "ok" => db' = db]_vars

\* C2 as stated: a detach that follows the attach of the same component (tag)
\* to the same case leaves the case's attached set as it was before the attach,
\* whatever was attached then.
C2_RoundTrip ==
    /\ (Ok("remove_component") /\ last.undoes) =>
            case_components[last.case_id] = last.origin
    /\ (Ok("remove_tag") /\ last.undoes) =>
            case_tags[last.case_id] = last.origin

\* C2 amended: after the attach and the detach the attached set is the set
\* before the attach without the component (tag): the set before the attach
\* exactly when the component (tag) was not attached then.
C2_DetachAfterAttach ==
    /\ (Ok("remove_component") /\ last.undoes) =>
            /\ case_components[last.case_id] = last.origin \ {last.component_id}
            /\ last.component_id \notin last.origin =>
                    case_components[last.case_id] = last.origin
    /\ (Ok("remove_tag") /\ last.undoes) =>
            /\ case_tags[last.case_id] = last.origin \ {TagPk(tags, last.tag)}
            /\ TagPk(tags, last.tag) \notin last.origin =>
                    case_tags[last.case_id] = last.origin

\* A component detached right after it was attached to a case that carried
\* it already, next to another component that stays.
C2_Witness ==
    /\ Ok("remove_component") /\ last.undoes
    /\ last.component_id \in last.origin
    /\ case_components[last.case_id] # {}

\* C10: no two tag rows have the same name; an add_tag that succeeds attaches
\* the one row of that name, and changes nothing when the case carried it.
C10_TagsUniqueByName ==
    /\ \A i, j \in DOMAIN tags : tags[i] = tags[j] => i = j
    /\ \A c \in DOMAIN case_tags : case_tags[c] \subseteq DOMAIN tags
    /\ Ok("add_tag") =>
            \E pk \in DOMAIN tags :
                /\ tags[pk] = last.tag
                /\ case_tags[last.case_id] = last.before \cup {pk}
                /\ pk \in last.before => case_tags[last.case_id] = last.before

\* The second case receives, by add_tag, the tag row the first case carries,
\* and carried it before the call.
C10_Witness ==
    /\ Ok("add_tag") /\ last.case_id = 2
    /\ \E pk \in DOMAIN tags :
            /\ tags[pk] = last.tag
            /\ pk \in case_tags[1] \cap case_tags[2]
            /\ pk \in last.before
    /\ Len(tags) = 2

IsPrefix(s, t) == Len(s) <= Len(t) /\ SubSeq(t, 1, Len(s)) = s

\* C3: the text rows of a case are append-only. No call modifies or removes a
\* row that exists; a create that succeeds adds the first row of the new case
\* and nothing else; an update adds at most one row, to the case it names; no
\* other call changes any case's rows.
C3_TextsAppendOnly ==
    [][ /\ \A pk \in DOMAIN case_texts :
                /\ pk \in DOMAIN case_texts'
                /\ IsPrefix(case_texts[pk], case_texts'[pk])
        /\ (last'.op = "create" /\ last'.result = "ok") =>
                /\ DOMAIN case_texts' = DOMAIN case_texts \cup {last'.case_id}
                /\ last'.case_id \notin DOMAIN case_texts
                /\ Len(case_texts'[last'.case_id]) = 1
                /\ \A pk \in DOMAIN case_texts : case_texts'[pk] = case_texts[pk]
        /\ last'.op = "update" =>
                /\ DOMAIN case_texts' = DOMAIN case_texts
                /\ \A pk \in DOMAIN case_texts :
                        /\ Len(case_texts'[pk]) <= Len(case_texts[pk]) + 1
                        /\ pk # last'.case_id => case_texts'[pk] = case_texts[pk]
        /\ ~(last'.op \in {"create", "update"} /\ last'.result = "ok") =>
                case_texts' = case_texts
      ]_vars

\* An update has added a row to a case that carries a tag, a component and a
\* notification address.
C3_Witness ==
    /\ Ok("update")
    /\ Len(case_texts[last.case_id]) >= 2
    /\ case_tags[last.case_id] # {}
    /\ case_components[last.case_id] # {}
    /\ case_cc[last.case_id] # <<>>

\* What decides how an update ends, read off the values alone.
CategoryWithoutProduct(v) == v.category # 0 /\ v.product = 0
CategoryOfProduct(v) ==
    v.category \in DOMAIN CategoryProduct /\ CategoryProduct[v.category] = v.product

\* C4 as stated: update fails with DoesNotExist whenever the case does not
\* exist, whatever values holds.
C4_NotFoundWhateverValues ==
    (last.op = "update" /\ ~Exists(last.case_id)) => last.result = "DoesNotExist"

\* C4 amended: when the case does not exist, update fails with DoesNotExist if
\* values passes the checks made first (no category without a product, a valid
\* form), and with the validation error of those checks otherwise.
C4_NotFoundAfterValidation ==
    (last.op = "update" /\ ~Exists(last.case_id)) =>
        LET v == last.values
            rejected == \/ CategoryWithoutProduct(v)
                        \/ (v.category # 0 /\ ~CategoryOfProduct(v))
                        \/ (v.product # 0 /\ v.product \notin Products)
        IN  last.result = IF rejected THEN "ValueError" ELSE "DoesNotExist"

\* An update of a case that does not exist, with values that name a narrative
\* field, has failed with DoesNotExist.
C4_Witness ==
    /\ last.op = "update" /\ ~Exists(last.case_id)
    /\ last.result = "DoesNotExist"
    /\ last.values.keys \cap NarrativeKeys # {}

\* C5: an update that succeeds never changes the attached tags or components
\* (nor the tag rows or the notification lists), whatever keys values holds; it
\* changes no other case; of the case it names it sets each attribute that is a
\* key of values to the value given (a duration parsed) and leaves every other
\* attribute; and when values holds no narrative key it adds no text row.
C5_UpdateFrame ==
    [][ (last'.op = "update" /\ last'.result = "ok") =>
            LET c == last'.case_id
                v == last'.values
            IN  /\ case_tags' = case_tags
                /\ case_components' = case_components
                /\ case_cc' = case_cc
                /\ tags' = tags
                /\ v.keys \cap NarrativeKeys = {} => case_texts' = case_texts
                /\ DOMAIN test_cases' = DOMAIN test_cases
                /\ \A pk \in DOMAIN test_cases :
                        pk # c => test_cases'[pk] = test_cases[pk]
                /\ \A a \in DOMAIN test_cases[c] :
                        test_cases'[c][a] =
                            IF a \notin v.keys THEN test_cases[c][a]
                            ELSE IF a = "estimated_time" THEN parse_duration(v[a])
                            ELSE v[a]
      ]_vars

\* A summary-only update of one of two cases, the case carrying tags, a
\* component and a notification address, and a category the update kept.
C5_Witness ==
    /\ Ok("update") /\ last.values.keys = {"summary"}
    /\ Len(test_cases) = 2
    /\ test_cases[last.case_id].summary = "s2"
    /\ test_cases[last.case_id].category = 2
    /\ case_tags[last.case_id] # {}
    /\ case_components[last.case_id] # {}
    /\ case_cc[last.case_id] # <<>>

\* C6: an update that succeeds with a narrative key in values adds exactly one
\* text row to the case, by the acting user; each narrative field of the row is
\* the stripped value supplied, and the empty string when not supplied.
C6_UpdateAddsText ==
    [][ (/\ last'.op = "update" /\ last'.result = "ok"
         /\ last'.values.keys \cap NarrativeKeys # {}) =>
            LET c == last'.case_id
                v == last'.values
                field(k) == IF k \in v.keys THEN strip(v[k]) ELSE <<>>
            IN  case_texts'[c] =
                    Append(case_texts[c],
                           [author |-> last'.user, action |-> field("action"),
                            effect |-> field("effect"), setup |-> field("setup"),
                            breakdown |-> field("breakdown")])
      ]_vars

\* bob has given a new action, with blanks around it, to a case of alice whose
\* previous text held an action too: the new row holds the action stripped and
\* three empty fields.
C6_Witness ==
    /\ Ok("update") /\ last.values.keys = {"action"} /\ last.user = "bob"
    /\ last.values.action = <<" ", "r", " ">>
    /\ test_cases[last.case_id].author = "alice"
    /\ LET texts == case_texts[last.case_id]
       IN  /\ Len(texts) >= 2
           /\ texts[Len(texts) - 1].effect # <<>>
           /\ texts[Len(texts)].action = <<"r">>
           /\ texts[Len(texts)].effect = <<>>
           /\ texts[Len(texts)].author = "bob"

NoDuplicates(s) == \A i, j \in DOMAIN s : s[i] = s[j] => i = j

\* C7: add_notification_cc is a set union. After a call that succeeds the list
\* of the case holds the addresses it held, in place, followed by the addresses
\* of cc_list it did not hold, each once; when it held them all it is
\* unchanged, as it is by the same call made again; no list holds an address
\* twice, and no other case's list changes.
C7_AddCcIsUnion ==
    [][ (last'.op = "add_notification_cc" /\ last'.result = "ok") =>
            LET c == last'.case_id
                L == Range(last'.cc_list.items)
            IN  /\ Range(case_cc'[c]) = Range(case_cc[c]) \cup L
                /\ IsPrefix(case_cc[c], case_cc'[c])
                /\ NoDuplicates(case_cc'[c])
                /\ L \subseteq Range(case_cc[c]) => case_cc'[c] = case_cc[c]
                /\ L \subseteq Range(case_cc'[c])
                /\ \A pk \in DOMAIN case_cc : pk # c => case_cc'[pk] = case_cc[pk]
      ]_vars

\* A list that repeats one address was added to a case that held another: the
\* list of the case holds both, once each.
C7_Witness ==
    /\ Ok("add_notification_cc")
    /\ last.cc_list.items = <<"b@x.org", "b@x.org">>
    /\ case_cc[last.case_id] = <<"a@x.org", "b@x.org">>

\* The entries of items that are no valid address, by position.
InvalidPositions(items) == {i \in DOMAIN items : items[i] \notin ValidEmails}

\* C9: add_notification_cc and remove_notification_cc validate cc_list before
\* they look the case up. What is not a list ends in TypeError; a list with an
\* invalid entry ends in ValidationError, naming every invalid entry in input
\* order; either way, whether the case exists or not, and no notification list
\* changes.
C9_CcValidatedFirst ==
    [][ last'.op \in {"add_notification_cc", "remove_notification_cc"} =>
            LET cc == last'.cc_list
                bad == InvalidPositions(cc.items)
                named == last'.invalid
            IN  /\ ~cc.is_list =>
                    /\ last'.result = "TypeError"
                    /\ db' = db
                /\ (cc.is_list /\ bad # {}) =>
                    /\ last'.result = "ValidationError"
                    /\ Len(named) = Cardinality(bad)
                    /\ \A k \in DOMAIN named :
                            \E i \in bad :
                                /\ named[k] = cc.items[i]
                                /\ Cardinality({j \in bad : j < i}) = k - 1
                    /\ db' = db
                /\ (cc.is_list /\ bad = {}) =>
                    last'.result \in {"ok", "DoesNotExist"}
      ]_vars

\* A list with two invalid entries around a valid one, sent for a case that
\* does not exist: the call ended in ValidationError, not DoesNotExist, and
\* names the two in input order.
C9_Witness ==
    /\ last.op = "add_notification_cc" /\ ~Exists(last.case_id)
    /\ last.result = "ValidationError"
    /\ last.cc_list.items = <<"also bad", "a@x.org", "not-an-email">>
    /\ last.invalid = <<"also bad", "not-an-email">>

====
